---- MODULE Spec2Model ----
(***************************************************************************)
(* Model of src/wheel_strategy.py: WheelStrategy's portfolio assessment,   *)
(* delta targeting and cash-secured-put candidate scan.                    *)
(*                                                                         *)
(* Floats are fixed-point integers:                                        *)
(*   ratios (equity_ratio, cash_ratio, imbalance_ratio)  in 1/10000        *)
(*   deltas (targets, observed deltas)                   in 1/1000000      *)
(*   account values                                      in dollars        *)
(*   stock prices and strikes                            in cents          *)
(*   option quotes (bid, ask, last, mid_price)           in 1/10000 dollar *)
(* The inputs are chosen so that every division the code performs on them  *)
(* is exact at these scales.                                               *)
(***************************************************************************)
EXTENDS Integers, Sequences, FiniteSets, TLC

VARIABLES
    pc,               \* position of the caller (main) in the analysis flow
    config,           \* self.config: Nothing or <<StrategyConfig>>
    current_price,    \* last value returned by get_current_stock_price (cents)
    price_call,       \* Nothing or <<the last call of get_current_stock_price>>
    balance,          \* Nothing or <<PortfolioBalance>> of the last assessment
    targets,          \* Nothing or <<DeltaTargets>> of the last calculation
    prev,             \* the <<balance, targets>> of the analysis pass before
    max_contracts,    \* argument of get_put_recommendations
    chains,           \* Nothing or <<the option chain the collaborator delivers>>
    contracts,        \* the (expiration, strike) pairs the scan walks, in order
    quotes,           \* per contract, what the market-data collaborator delivers
    tickers,          \* per contract, the collaborator's Ticker object
    idx,              \* index in contracts of the next contract to scan
    recommendations,  \* the local list built by the scan
    result,           \* Nothing or <<list returned by get_put_recommendations>>
    first             \* Nothing or <<list the call before this one returned>>

vars == <<pc, config, current_price, price_call, balance, targets, prev,
          max_contracts, chains, contracts, quotes, tickers, idx, recommendations,
          result, first>>

----------------------------------------------------------------------------
(* Values *)

Nothing == <<>>
Some(x) == <<x>>
The(o) == o[1]

\* float('nan') and None in a slot that otherwise holds a float
NaN == -999999999
NoneVal == -888888888

RatioScale == 10000
DeltaScale == 1000000

Abs(x) == IF x < 0 THEN -x ELSE x
Max(a, b) == IF a >= b THEN a ELSE b
Min(a, b) == IF a <= b THEN a ELSE b

isnan(x) == x = NaN
\* Python truthiness of a float-or-None slot
truthy(x) == x # NoneVal /\ x # 0
\* `x and not math.isnan(x) and x > 0`
valid(x) == truthy(x) /\ ~isnan(x) /\ x > 0

----------------------------------------------------------------------------
(* PortfolioBalance and DeltaTargets *)

is_cash_heavy(b) == b.equity_ratio < 4000
is_equity_heavy(b) == b.equity_ratio > 6000
is_balanced_strict(b) == 4000 < b.equity_ratio /\ b.equity_ratio < 6000
is_balanced(b) == 4000 <= b.equity_ratio /\ b.equity_ratio <= 6000

put_range_top(t) == t.put_delta_max
get_put_target_delta(t) == (t.put_delta_min + t.put_delta_max) \div 2
get_call_target_delta(t) == (t.call_delta_min + t.call_delta_max) \div 2

base_put_delta == 200000
base_call_delta == 200000
delta_range == 50000
delta_floor == 100000
delta_cap == 450000
target_equity_ratio == 5000

\* aggressiveness is in 1/10000 and the targets in 1/1000000, so
\* `aggressiveness * 0.15` is aggressiveness * 15 and `* 0.05` is * 5.
more_aggressive_steep(aggressiveness) == aggressiveness * 25
more_aggressive(aggressiveness) == aggressiveness * 15
less_aggressive_unsigned(aggressiveness) == aggressiveness * 5
less_aggressive(aggressiveness) == -aggressiveness * 5

calculate_delta_targets(b) ==
    LET aggressiveness == Abs(b.imbalance_ratio)
        put_delta_target ==
            IF is_cash_heavy(b) THEN base_put_delta + more_aggressive(aggressiveness)
            ELSE IF is_equity_heavy(b) THEN base_put_delta + less_aggressive(aggressiveness)
            ELSE base_put_delta
        call_delta_target ==
            IF is_cash_heavy(b) THEN base_call_delta + less_aggressive(aggressiveness)
            ELSE IF is_equity_heavy(b) THEN base_call_delta + more_aggressive(aggressiveness)
            ELSE base_call_delta
    IN  [put_delta_min  |-> Max(delta_floor, put_delta_target - delta_range),
         put_delta_max  |-> Min(delta_cap, put_delta_target + delta_range),
         call_delta_min |-> Max(delta_floor, call_delta_target - delta_range),
         call_delta_max |-> Min(delta_cap, call_delta_target + delta_range)]

\* lines 227-250 of assess_portfolio_balance: the arithmetic on the fetched values
portfolio_balance(cash_value, total_value, equity_shares, price) ==
    LET equity_value == (equity_shares * price) \div 100
        equity_ratio == IF total_value > 0
                        THEN (equity_value * RatioScale) \div total_value
                        ELSE 0
        cash_ratio == IF total_value > 0
                      THEN (cash_value * RatioScale) \div total_value
                      ELSE RatioScale
    IN  [cash_value      |-> cash_value,
         equity_value    |-> equity_value,
         total_value     |-> total_value,
         equity_ratio    |-> equity_ratio,
         cash_ratio      |-> cash_ratio,
         imbalance_ratio |-> (equity_ratio - target_equity_ratio) * 2]

----------------------------------------------------------------------------
(* get_current_stock_price *)

DefaultPrice == 1000

get_current_stock_price(t, cfg) ==
    IF valid(t.last) THEN [raised |-> FALSE, price |-> t.last]
    ELSE IF valid(t.close) THEN [raised |-> FALSE, price |-> t.close]
    ELSE IF truthy(t.bid) /\ truthy(t.ask) /\ ~isnan(t.bid) /\ ~isnan(t.ask)
            /\ t.bid > 0 /\ t.ask > 0
         THEN [raised |-> FALSE, price |-> (t.bid + t.ask) \div 2]
    \* the fallback formats self.config.symbol: AttributeError when config is None
    ELSE IF cfg = Nothing THEN [raised |-> TRUE, price |-> NaN]
    ELSE [raised |-> FALSE, price |-> DefaultPrice]

----------------------------------------------------------------------------
(* Inputs delivered by the collaborators *)

StockTickers ==
    { [last |-> 1000,    close |-> 990,     bid |-> 999, ask |-> 1001],
      [last |-> NaN,     close |-> 1250,    bid |-> NaN, ask |-> NaN],
      [last |-> NoneVal, close |-> NaN,     bid |-> 990, ask |-> 1010],
      [last |-> NaN,     close |-> NaN,     bid |-> -1,  ask |-> -1] }

FundingAmounts == {50000}
CashValues == {0, 10000}
TotalValues == {0, 10000}
ShareCounts == {0, 390, 400, 500, 600, 610, 1000, 2000}

\* what reqSecDefOptParamsAsync delivers: no chain, or the first chain with its
\* expirations (days from now, as sorted(chain.expirations) orders them) and
\* its strikes (cents)
Chains ==
    { Nothing,
      Some([expirations |-> <<3, 10, 40>>,
            strikes |-> {800, 850, 925, 950, 1000, 1100, 1200}]),
      Some([expirations |-> <<7, 14, 21, 28, 35, 36>>, strikes |-> {1200, 1300}]),
      Some([expirations |-> <<40>>, strikes |-> {950}]) }

\* what qualifyContractsAsync and the Ticker of one put contract deliver:
\* qual is the exchange that qualifies it ("none": neither, "raise": the lookup
\* raises); modelGreeks is Nothing or <<delta>>
OptionTickers ==
    { [qual |-> "CBOE",  bid |-> 2000, ask |-> 2400, last |-> 2200, modelGreeks |-> Some(-200000)],
      [qual |-> "SMART", bid |-> 3000, ask |-> NaN,  last |-> 500,  modelGreeks |-> Nothing],
      [qual |-> "CBOE",  bid |-> NaN,  ask |-> NaN,  last |-> 3000, modelGreeks |-> Some(0)],
      [qual |-> "CBOE",  bid |-> 400,  ask |-> 600,  last |-> 500,  modelGreeks |-> Some(-30000)],
      [qual |-> "CBOE",  bid |-> 3000, ask |-> 2000, last |-> 2500, modelGreeks |-> Some(-250000)],
      [qual |-> "CBOE",  bid |-> NaN,  ask |-> -1,   last |-> NaN,  modelGreeks |-> Some(-200000)],
      [qual |-> "none",  bid |-> NaN,  ask |-> NaN,  last |-> NaN,  modelGreeks |-> Nothing],
      [qual |-> "raise", bid |-> NaN,  ask |-> NaN,  last |-> NaN,  modelGreeks |-> Nothing] }

\* largest max_contracts a caller passes
MaxRequested == 3

----------------------------------------------------------------------------
(* get_put_recommendations: the scan list *)

RECURSIVE SortedSeq(_)
\* sorted(...) of a set of numbers
SortedSeq(S) ==
    IF S = {} THEN <<>>
    ELSE LET m == CHOOSE x \in S : \A y \in S : x <= y
         IN  <<m>> \o SortedSeq(S \ {m})

Head_n(s, n) == SubSeq(s, 1, Min(n, Len(s)))
Tail_n(s, n) == SubSeq(s, Max(1, Len(s) - n + 1), Len(s))

in_window(d) == 7 <= d /\ d <= 35

\* the expiration loop: keep those 7..35 days out, stop at 5
next_5_weeks(expirations) == Head_n(SelectSeq(expirations, in_window), 5)

is_clean(s) == s % 100 = 0 \/ s % 100 = 50

\* strikes below the current price and at least 85% of it, clean ones only
clean_strikes(strikes, price) ==
    SortedSeq({s \in strikes : s < price /\ s * 100 >= price * 85 /\ is_clean(s)})

\* for exp in next_5_weeks[:3]: for strike in clean_strikes[-5:]
scan_list(chain, price) ==
    LET exps == Head_n(next_5_weeks(chain.expirations), 3)
        strs == Tail_n(clean_strikes(chain.strikes, price), 5)
        n == Len(strs)
    IN  [k \in 1..(Len(exps) * n) |->
            [exp |-> exps[((k - 1) \div n) + 1], strike |-> strs[((k - 1) % n) + 1]]]

----------------------------------------------------------------------------
(* get_put_recommendations: one iteration of the scan (lines 370-476) *)

min_delta == 50000

\* delta as line 424-426 leaves it: None without Greeks, else abs(delta)
observed_delta(tk) ==
    IF tk.modelGreeks = Nothing THEN NoneVal
    ELSE IF isnan(The(tk.modelGreeks)) THEN NaN
    ELSE Abs(The(tk.modelGreeks))

\* lines 404-414: the Ticker with bid/ask estimated from last when they are missing
estimated_lopsided(tk) ==
    IF (~valid(tk.bid) \/ ~valid(tk.ask)) /\ valid(tk.last)
    THEN LET estimated_mid == tk.last
             estimated_spread == Max(100, estimated_mid \div 10)
         IN  [tk EXCEPT !.bid = estimated_mid - estimated_spread,
                        !.ask = estimated_mid + estimated_spread \div 2]
    ELSE tk
estimated(tk) ==
    IF (~valid(tk.bid) \/ ~valid(tk.ask)) /\ valid(tk.last)
    THEN LET estimated_mid == tk.last
             estimated_spread == Max(100, estimated_mid \div 10)
         IN  [tk EXCEPT !.bid = estimated_mid - estimated_spread \div 2,
                        !.ask = estimated_mid + estimated_spread \div 2]
    ELSE tk

\* line 419
invalid_spread_ignored(tk) == FALSE
invalid_spread(tk) == tk.ask < tk.bid

\* `delta and delta >= 0.05`, or `not delta`
should_include(delta) ==
    \/ truthy(delta) /\ ~isnan(delta) /\ delta >= min_delta
    \/ ~truthy(delta)

candidate(c, tk, delta) ==
    LET mid_price == (tk.bid + tk.ask) \div 2
    IN  [strike         |-> c.strike,
         expiration     |-> c.exp,
         days_to_exp    |-> c.exp,
         exchange       |-> tk.qual,
         delta          |-> IF truthy(delta) THEN delta ELSE 0,
         bid            |-> tk.bid,
         ask            |-> tk.ask,
         mid_price      |-> mid_price,
         premium_income |-> mid_price * 100,
         cash_required  |-> c.strike * 100]

\* what the except clause of line 475 does with an exception of the try block:
\* it is swallowed (`continue`), none leaves the loop body
propagates_all(exception) == TRUE
propagates(exception) == FALSE

\* The body of the inner loop for contract c with Ticker tk: the Ticker as the
\* iteration leaves it, the candidate it appends (Nothing or <<candidate>>),
\* whether it ran to the length check of line 478 (no `continue` was taken), and
\* whether an exception left it.
scan_contract(c, tk) ==
    LET skip(t) == [ticker |-> t, appended |-> Nothing, completed |-> FALSE,
                    raised |-> FALSE]
        except(t, e) == [skip(t) EXCEPT !.raised = propagates(e)]
    IN  IF tk.qual = "raise" THEN except(tk, "lookup")
        ELSE IF tk.qual = "none" THEN skip(tk)
        ELSE IF (~valid(tk.bid) \/ ~valid(tk.ask)) /\ ~valid(tk.last) THEN skip(tk)
        ELSE LET t == estimated(tk)
                 delta == observed_delta(t)
             IN  IF invalid_spread(t) THEN skip(t)
                 \* abs(None) raises TypeError
                 ELSE IF t.modelGreeks # Nothing /\ The(t.modelGreeks) = NoneVal
                      THEN except(t, "TypeError")
                 \* bid and ask are numbers here, so mid_price is never NaN
                 ELSE [ticker    |-> t,
                       appended  |-> IF should_include(delta)
                                     THEN Some(candidate(c, t, delta))
                                     ELSE Nothing,
                       completed |-> TRUE,
                       raised    |-> FALSE]

\* lines 478-482: the scan ends after an iteration that ran to the length check
\* with the list full, after the last strike of an expiration with the list
\* full, and after the last contract
scan_ends_at_end_only(completed, full, last_strike, last_contract) == last_contract
scan_ends(completed, full, last_strike, last_contract) ==
    (completed /\ full) \/ (last_strike /\ full) \/ last_contract

\* A later call finds the Ticker object as the earlier call left it, or with
\* the fields the collaborator has a value for delivered again.
delivered_again(tk, q) ==
    [tk EXCEPT !.bid = IF isnan(q.bid) THEN tk.bid ELSE q.bid,
               !.ask = IF isnan(q.ask) THEN tk.ask ELSE q.ask]

----------------------------------------------------------------------------
(* get_put_recommendations: ranking (lines 484-488) *)

sort_key(x, target_delta) == Abs(x.delta - target_delta)

RECURSIVE insert_sorted(_, _, _)
\* x goes after every element whose key is not greater: the sort is stable
insert_sorted(s, x, target_delta) ==
    IF s = <<>> THEN <<x>>
    ELSE IF sort_key(x, target_delta) < sort_key(Head(s), target_delta)
         THEN <<x>> \o s
         ELSE <<Head(s)>> \o insert_sorted(Tail(s), x, target_delta)

unsorted(s, target_delta) == s

RECURSIVE sort_by_delta(_, _)
\* recommendations.sort(key=lambda x: abs(x['delta'] - target_delta))
sort_by_delta(s, target_delta) ==
    IF s = <<>> THEN <<>>
    ELSE insert_sorted(sort_by_delta(SubSeq(s, 1, Len(s) - 1), target_delta),
                       s[Len(s)], target_delta)

\* recommendations[:max_contracts], max_contracts >= 0
truncate(s, n) == Head_n(s, n)

ranked(recs, tgt, n) == truncate(sort_by_delta(recs, get_put_target_delta(tgt)), n)

----------------------------------------------------------------------------
(* The state machine *)

Init ==
    /\ pc = "start"
    /\ config = Nothing
    /\ current_price = NaN
    /\ price_call = Nothing
    /\ balance = Nothing
    /\ targets = Nothing
    /\ prev = Nothing
    /\ max_contracts = 0
    /\ chains = Nothing
    /\ contracts = <<>>
    /\ quotes = <<>>
    /\ tickers = <<>>
    /\ idx = 0
    /\ recommendations = <<>>
    /\ result = Nothing
    /\ first = Nothing

\* one call of get_current_stock_price on the Ticker t
price_lookup(t) ==
    LET r == get_current_stock_price(t, config)
    IN  [ticker |-> t, raised |-> r.raised, price |-> r.price]

\* setup_strategy, with the ticker symbol already validated
setup_strategy ==
    /\ pc = "start"
    /\ \E t \in StockTickers, funding_amount \in FundingAmounts, confirm \in BOOLEAN :
        LET r == price_lookup(t)
            target_shares ==
                IF isnan(r.price) THEN 100
                ELSE Max(100, (((funding_amount * 50) \div r.price) \div 100) * 100)
        IN  /\ price_call' = Some(r)
            /\ IF r.raised
               THEN /\ pc' = "failed"
                    /\ UNCHANGED <<config, current_price>>
               ELSE IF ~confirm
               THEN /\ pc' = "cancelled"
                    /\ current_price' = r.price
                    /\ UNCHANGED config
               ELSE /\ pc' = "configured"
                    /\ current_price' = r.price
                    /\ config' = Some([symbol |-> "F",
                                       funding_amount |-> funding_amount,
                                       target_shares |-> target_shares,
                                       confirmed |-> TRUE])
    /\ UNCHANGED <<balance, targets, prev, max_contracts, chains, contracts, quotes,
                   tickers, idx, recommendations, result, first>>

\* assess_portfolio_balance; equity_shares = 0 is an account without positions.
\* Without a stored configuration, comparing a position with self.config.symbol
\* raises AttributeError.
assess_portfolio_balance ==
    /\ pc \in {"configured", "cancelled"}
    /\ \E cash_value \in CashValues, total_value \in TotalValues,
          equity_shares \in ShareCounts, t \in StockTickers :
        IF config = Nothing /\ equity_shares # 0
        THEN /\ pc' = "failed"
             /\ UNCHANGED <<current_price, price_call, balance>>
        ELSE LET r == price_lookup(t)
             IN  /\ price_call' = Some(r)
                 /\ IF r.raised
                    THEN /\ pc' = "failed"
                         /\ UNCHANGED <<current_price, balance>>
                    ELSE /\ pc' = "assessed"
                         /\ current_price' = r.price
                         /\ balance' = Some(portfolio_balance(cash_value, total_value,
                                                              equity_shares, r.price))
    /\ UNCHANGED <<config, targets, prev, max_contracts, chains, contracts, quotes,
                   tickers, idx, recommendations, result, first>>

analyze_portfolio ==
    /\ pc = "assessed"
    /\ targets' = Some(calculate_delta_targets(The(balance)))
    /\ pc' = "targeted"
    /\ UNCHANGED <<config, current_price, price_call, balance, prev, max_contracts,
                   chains, contracts, quotes, tickers, idx, recommendations, result,
                   first>>

\* the caller keeps the pass it has and runs analyze_portfolio again
analyze_again ==
    /\ pc = "targeted"
    /\ prev' = Some([balance |-> The(balance), targets |-> The(targets)])
    /\ pc' = IF config = Nothing THEN "cancelled" ELSE "configured"
    /\ UNCHANGED <<config, current_price, price_call, balance, targets,
                   max_contracts, chains, contracts, quotes, tickers, idx,
                   recommendations, result, first>>

\* get_put_recommendations up to the scan (lines 313-365)
get_put_recommendations ==
    /\ pc = "targeted"
    /\ \E n \in 0..MaxRequested, ch \in Chains, t \in StockTickers :
        /\ max_contracts' = n
        /\ IF config = Nothing
           THEN /\ result' = Some(<<>>)
                /\ pc' = "done"
                /\ UNCHANGED <<current_price, price_call, chains, contracts, quotes,
                               tickers>>
           ELSE IF ch = Nothing
           THEN /\ chains' = ch
                /\ result' = Some(<<>>)
                /\ pc' = "done"
                /\ UNCHANGED <<current_price, price_call, contracts, quotes, tickers>>
           ELSE LET r == price_lookup(t)
                    cs == scan_list(The(ch), r.price)
                IN  /\ chains' = ch
                    /\ price_call' = Some(r)
                    /\ current_price' = r.price
                    /\ contracts' = cs
                    /\ quotes' \in [1..Len(cs) -> OptionTickers]
                    /\ tickers' = quotes'
                    /\ result' = Nothing
                    /\ pc' = IF Len(cs) = 0 THEN "sorting" ELSE "scanning"
    /\ idx' = 1
    /\ recommendations' = <<>>
    /\ UNCHANGED <<config, balance, targets, prev, first>>

\* one pass through the inner loop body, and the length checks of lines 478-482
scan ==
    /\ pc = "scanning"
    /\ LET c == contracts[idx]
           s == scan_contract(c, tickers[idx])
           recs == IF s.appended = Nothing THEN recommendations
                   ELSE Append(recommendations, The(s.appended))
           full == Len(recs) >= max_contracts
           last_strike == idx = Len(contracts) \/ contracts[idx + 1].exp # c.exp
       IN  /\ tickers' = [tickers EXCEPT ![idx] = s.ticker]
           /\ recommendations' = recs
           /\ pc' = IF s.raised THEN "failed"
                    ELSE IF scan_ends(s.completed, full, last_strike,
                                      idx = Len(contracts))
                    THEN "sorting" ELSE "scanning"
    /\ idx' = idx + 1
    /\ UNCHANGED <<config, current_price, price_call, balance, targets, prev,
                   max_contracts, chains, contracts, quotes, result, first>>

\* sort, truncate and return
rank_and_return ==
    /\ pc = "sorting"
    /\ result' = Some(ranked(recommendations, The(targets), max_contracts))
    /\ pc' = "done"
    /\ UNCHANGED <<config, current_price, price_call, balance, targets, prev,
                   max_contracts, chains, contracts, quotes, tickers, idx,
                   recommendations, first>>

\* the caller runs calculate_delta_targets and get_put_recommendations a second
\* time, the collaborators delivering what they delivered to the first call
call_again ==
    /\ pc = "done"
    /\ first = Nothing
    /\ first' = Some([targets |-> The(targets), result |-> The(result)])
    /\ targets' = Some(calculate_delta_targets(The(balance)))
    /\ IF config = Nothing \/ chains = Nothing
       THEN /\ result' = Some(<<>>)
            /\ pc' = "done"
            /\ UNCHANGED <<current_price, price_call, contracts, tickers>>
       ELSE LET r == price_lookup(The(price_call).ticker)
                cs == scan_list(The(chains), r.price)
            IN  /\ price_call' = Some(r)
                /\ current_price' = r.price
                /\ contracts' = cs
                /\ \E again \in SUBSET (1..Len(cs)) :
                       tickers' = [k \in 1..Len(cs) |->
                                      IF k \in again
                                      THEN delivered_again(tickers[k], quotes[k])
                                      ELSE tickers[k]]
                /\ result' = Nothing
                /\ pc' = IF Len(cs) = 0 THEN "sorting" ELSE "scanning"
    /\ idx' = 1
    /\ recommendations' = <<>>
    /\ UNCHANGED <<config, balance, prev, max_contracts, chains, quotes>>

Next ==
    \/ setup_strategy
    \/ assess_portfolio_balance
    \/ analyze_portfolio
    \/ get_put_recommendations
    \/ scan
    \/ rank_and_return

Spec == Init /\ [][Next]_vars

\* two analysis passes in a row, without the recommendations
NextAnalysis ==
    \/ setup_strategy
    \/ assess_portfolio_balance
    \/ analyze_portfolio
    \/ analyze_again

\* the recommendations asked for twice in a row
NextTwice ==
    \/ Next
    \/ call_again

SpecTwice == Init /\ [][NextTwice]_vars

SpecAnalysis == Init /\ [][NextAnalysis]_vars

----------------------------------------------------------------------------
(* Properties of the balance assessment and the delta targets *)

in_range(x, lo, hi) == lo <= x /\ x <= hi

\* C1: each of the four bounds returned by calculate_delta_targets lies in
\* [0.10, 0.45].
C1_TargetsWithinClamp ==
    pc = "targeted" =>
        LET t == The(targets)
        IN  /\ in_range(t.put_delta_min, delta_floor, delta_cap)
            /\ in_range(t.put_delta_max, delta_floor, delta_cap)
            /\ in_range(t.call_delta_min, delta_floor, delta_cap)
            /\ in_range(t.call_delta_max, delta_floor, delta_cap)

\* C2: a balance assessed from non-negative values with total_value > 0 has
\* equity_ratio in [0, 1] and imbalance_ratio in [-1, 1].
C2_RatiosInRange ==
    (/\ balance # Nothing
     /\ The(balance).total_value > 0
     /\ The(balance).cash_value >= 0
     /\ The(balance).equity_value >= 0) =>
        LET b == The(balance)
        IN  /\ in_range(b.equity_ratio, 0, RatioScale)
            /\ in_range(b.imbalance_ratio, -RatioScale, RatioScale)

\* C3: with total_value > 0 the equity and cash ratios of an assessed balance
\* sum to 1; with total_value = 0 the balance has equity_ratio 0, cash_ratio 1
\* and is cash-heavy.
C3_RatiosSumToOne ==
    balance # Nothing =>
        LET b == The(balance)
        IN  /\ b.total_value > 0 => b.equity_ratio + b.cash_ratio = RatioScale
            /\ b.total_value = 0 =>
                 b.equity_ratio = 0 /\ b.cash_ratio = RatioScale /\ is_cash_heavy(b)

Count(flags) == Cardinality({i \in DOMAIN flags : flags[i]})

\* C4: exactly one of is_cash_heavy, is_equity_heavy and is_balanced holds of a
\* balance: cash-heavy below 0.40, equity-heavy above 0.60, balanced from 0.40
\* to 0.60 inclusive.
C4_ExactlyOneClass ==
    balance # Nothing =>
        LET b == The(balance)
        IN  /\ Count(<<is_cash_heavy(b), is_equity_heavy(b), is_balanced(b)>>) = 1
            /\ is_cash_heavy(b) <=> b.equity_ratio < 4000
            /\ is_equity_heavy(b) <=> b.equity_ratio > 6000
            /\ is_balanced(b) <=> in_range(b.equity_ratio, 4000, 6000)

C4_Witness ==
    /\ pc = "assessed"
    /\ The(balance).equity_ratio = 4000
    /\ is_balanced(The(balance))

\* C5: for a balanced portfolio (0.40 <= equity_ratio <= 0.60, in particular
\* imbalance_ratio = 0) the put and the call target delta are both 0.20.
C5_BalancedStaysAtBase ==
    (pc = "targeted" /\ in_range(The(balance).equity_ratio, 4000, 6000)) =>
        /\ get_put_target_delta(The(targets)) = 200000
        /\ get_call_target_delta(The(targets)) = 200000

C5_Witness ==
    /\ pc = "targeted"
    /\ The(balance).imbalance_ratio = 0
    /\ get_put_target_delta(The(targets)) = 200000

\* C6: for a non-balanced portfolio with a = |imbalance_ratio| the target delta
\* is 0.20 + 0.15*a on the corrective side (puts when cash-heavy, calls when
\* equity-heavy) and 0.20 - 0.05*a on the other side.
C6_SkewedTargets ==
    (pc = "targeted" /\ ~in_range(The(balance).equity_ratio, 4000, 6000)) =>
        LET b == The(balance)
            a == Abs(b.imbalance_ratio)
            put == get_put_target_delta(The(targets))
            call == get_call_target_delta(The(targets))
        IN  IF b.equity_ratio < 4000
            THEN put = 200000 + 15 * a /\ call = 200000 - 5 * a
            ELSE call = 200000 + 15 * a /\ put = 200000 - 5 * a

\* both passes are complete and both equity ratios are in [0, 1]
TwoPasses ==
    /\ pc = "targeted"
    /\ prev # Nothing
    /\ in_range(The(prev).balance.equity_ratio, 0, RatioScale)
    /\ in_range(The(balance).equity_ratio, 0, RatioScale)

\* C7: the skew is monotonic: of two balances with equity ratios e1 <= e2 in
\* [0, 1], the first has the put target at least as high and the call target at
\* most as high as the second.
C7_MonotonicSkew ==
    (TwoPasses /\ The(prev).balance.equity_ratio <= The(balance).equity_ratio) =>
        /\ get_put_target_delta(The(prev).targets) >= get_put_target_delta(The(targets))
        /\ get_call_target_delta(The(prev).targets) <= get_call_target_delta(The(targets))

C7_Witness ==
    /\ TwoPasses
    /\ The(prev).balance.equity_ratio = 6000
    /\ The(balance).equity_ratio = 6100
    /\ get_put_target_delta(The(prev).targets) > get_put_target_delta(The(targets))
    /\ get_call_target_delta(The(prev).targets) < get_call_target_delta(The(targets))

\* |e1 - e2| in 1/10000 and the difference of the targets in 1/1000000
ratio_distance == Abs(The(prev).balance.equity_ratio - The(balance).equity_ratio)
put_distance ==
    Abs(get_put_target_delta(The(prev).targets) - get_put_target_delta(The(targets)))
call_distance ==
    Abs(get_call_target_delta(The(prev).targets) - get_call_target_delta(The(targets)))

same_class(b1, b2) ==
    /\ is_cash_heavy(b1) <=> is_cash_heavy(b2)
    /\ is_equity_heavy(b1) <=> is_equity_heavy(b2)

\* C8 as stated: the targets of two balances whose equity ratios in [0, 1]
\* differ by d differ by at most 0.30*d each, also across the 0.40 and 0.60
\* thresholds.
C8_ContinuousSkew ==
    TwoPasses => put_distance <= 30 * ratio_distance /\ call_distance <= 30 * ratio_distance

\* C8 as amended: the targets of two balances whose equity ratios in [0, 1]
\* differ by d differ by at most 0.30*d each when the two balances have the same
\* classification, and by at most 0.30*d + 0.03 otherwise.
C8_PiecewiseContinuousSkew ==
    TwoPasses =>
        IF same_class(The(prev).balance, The(balance))
        THEN put_distance <= 30 * ratio_distance /\ call_distance <= 30 * ratio_distance
        ELSE /\ put_distance <= 30 * ratio_distance + 30000
             /\ call_distance <= 30 * ratio_distance + 30000

C8_Witness ==
    /\ TwoPasses
    /\ The(prev).balance.equity_ratio = 0
    /\ The(balance).equity_ratio = 3900
    /\ put_distance = 30 * ratio_distance

----------------------------------------------------------------------------
(* Properties of the ranked candidate list *)

returned == The(result)
target_midpoint == get_put_target_delta(The(targets))
distance(x) == Abs(x.delta - target_midpoint)

\* C9: the list returned by get_put_recommendations is in ascending order of
\* |delta - target midpoint|.
C9_RankedByDistance ==
    (pc = "done" /\ result # Nothing) =>
        \A i \in 1..(Len(returned) - 1) : distance(returned[i]) <= distance(returned[i + 1])

C9_Witness ==
    /\ pc = "done"
    /\ Len(returned) >= 2
    /\ distance(recommendations[1]) > distance(recommendations[2])
    /\ distance(returned[1]) < distance(returned[2])

\* the contracts of the scan list that pass the acceptance policy
accepted ==
    {k \in 1..Len(contracts) : scan_contract(contracts[k], tickers[k]).appended # Nothing}
candidate_of(k) == The(scan_contract(contracts[k], tickers[k]).appended)
is_returned(k) ==
    \E i \in 1..Len(returned) :
        returned[i].expiration = contracts[k].exp /\ returned[i].strike = contracts[k].strike

\* C10: get_put_recommendations returns at most max_contracts candidates, and no
\* accepted contract of the scan list that it leaves out is strictly closer to
\* the put target midpoint than one it returns.
C10_ClosestUpToCap ==
    (pc = "done" /\ result # Nothing) =>
        /\ Len(returned) <= max_contracts
        /\ \A k \in accepted : ~is_returned(k) =>
               \A i \in 1..Len(returned) : ~(distance(candidate_of(k)) < distance(returned[i]))

----------------------------------------------------------------------------
(* get_put_recommendations: the per-contract policy *)

\* the contracts the scan has looked up so far
scanned == 1..(idx - 1)
is_candidate(k) ==
    \E i \in 1..Len(recommendations) :
        /\ recommendations[i].expiration = contracts[k].exp
        /\ recommendations[i].strike = contracts[k].strike
candidate_at(k) ==
    CHOOSE x \in {recommendations[i] : i \in 1..Len(recommendations)} :
        x.expiration = contracts[k].exp /\ x.strike = contracts[k].strike
qualifies(q) == q.qual \in {"CBOE", "SMART"}
live(q) == valid(q.bid) /\ valid(q.ask)
\* quotes the scan can price: live bid and ask in order, or a valid last
usable(q) ==
    /\ qualifies(q)
    /\ IF live(q) THEN q.ask >= q.bid ELSE valid(q.last)
delta_available(q) ==
    /\ q.modelGreeks # Nothing
    /\ The(q.modelGreeks) # NoneVal
    /\ ~isnan(The(q.modelGreeks))

\* C11: a scanned contract with usable quotes is a candidate exactly when its
\* absolute delta is at least 0.05 or it has no delta at all, and no contract
\* with a delta below 0.05 is in the returned list.
C11_AcceptedByDelta ==
    /\ \A k \in scanned :
           (usable(quotes[k]) /\ (quotes[k].modelGreeks = Nothing \/ delta_available(quotes[k]))) =>
               (is_candidate(k) <=>
                    \/ quotes[k].modelGreeks = Nothing
                    \/ Abs(The(quotes[k].modelGreeks)) >= min_delta)
    /\ (pc = "done" /\ result # Nothing) =>
           \A k \in 1..Len(contracts) :
               (delta_available(quotes[k]) /\ Abs(The(quotes[k].modelGreeks)) < min_delta) =>
                   ~is_returned(k)

\* C12: every candidate, collected or returned, has ask >= bid, and a contract
\* whose live ask is below its live bid is not returned.
C12_AskNotBelowBid ==
    /\ \A i \in 1..Len(recommendations) : recommendations[i].ask >= recommendations[i].bid
    /\ (pc = "done" /\ result # Nothing) =>
           /\ \A i \in 1..Len(returned) : returned[i].ask >= returned[i].bid
           /\ \A k \in 1..Len(contracts) :
                  (live(quotes[k]) /\ quotes[k].ask < quotes[k].bid) => ~is_returned(k)

C12_Witness ==
    /\ pc = "done"
    /\ result # Nothing
    /\ Len(returned) >= 1
    /\ \E k \in scanned : live(quotes[k]) /\ quotes[k].ask < quotes[k].bid

\* C13: for a scanned, qualified contract whose bid or ask is missing: with a
\* valid last, the Ticker's bid and ask become last -/+ spread/2 with
\* spread = max(0.01, last/10) and a candidate made of it has mid_price = last;
\* with an invalid last the contract gives no candidate.
C13_EstimatedFromLast ==
    \A k \in scanned :
        LET q == quotes[k]
            spread == Max(100, q.last \div 10)
        IN  (qualifies(q) /\ ~live(q)) =>
                IF valid(q.last)
                THEN /\ tickers[k].bid = q.last - spread \div 2
                     /\ tickers[k].ask = q.last + spread \div 2
                     /\ is_candidate(k) =>
                            /\ candidate_at(k).bid = q.last - spread \div 2
                            /\ candidate_at(k).ask = q.last + spread \div 2
                            /\ candidate_at(k).mid_price = q.last
                ELSE ~is_candidate(k)

C13_Witness ==
    /\ pc = "done"
    /\ result # Nothing
    /\ \E k \in scanned :
           /\ qualifies(quotes[k]) /\ ~live(quotes[k]) /\ valid(quotes[k].last)
           /\ quotes[k].last \div 10 > 100
           /\ is_returned(k)
    /\ \E k \in scanned :
           /\ qualifies(quotes[k]) /\ ~live(quotes[k]) /\ valid(quotes[k].last)
           /\ quotes[k].last \div 10 < 100
           /\ is_returned(k)
    /\ \E k \in scanned :
           qualifies(quotes[k]) /\ ~live(quotes[k]) /\ ~valid(quotes[k].last)

\* C14: a lookup that raises adds no candidate and ends neither the scan nor
\* the call: the scan goes on with the next contract while the list is short
\* of max_contracts, no step of the scan fails, and the list returned holds
\* the candidates of the other contracts.
C14_FailureSwallowed ==
    [][ /\ (pc = "scanning" /\ quotes[idx].qual = "raise") =>
              /\ recommendations' = recommendations
              /\ pc' \in {"scanning", "sorting"}
              /\ (idx < Len(contracts) /\ Len(recommendations) < max_contracts) =>
                     (pc' = "scanning" /\ idx' = idx + 1)
        /\ (pc \in {"scanning", "sorting"}) => pc' # "failed"
        /\ (pc = "sorting" /\ Len(recommendations) <= max_contracts) =>
              /\ result' # Nothing
              /\ Len(The(result')) = Len(recommendations)
              /\ \A k \in scanned :
                     (usable(quotes[k]) /\ quotes[k].modelGreeks = Nothing) =>
                         \E i \in 1..Len(The(result')) :
                             /\ The(result')[i].expiration = contracts[k].exp
                             /\ The(result')[i].strike = contracts[k].strike
      ]_vars

C14_Witness ==
    /\ pc = "done"
    /\ result # Nothing
    /\ \E k \in scanned : \E j \in scanned :
           /\ k < j
           /\ quotes[k].qual = "raise"
           /\ is_returned(j)

----------------------------------------------------------------------------
(* get_current_stock_price *)

\* C15: every call of get_current_stock_price returns a price: the first valid
\* of last, close and bid/ask midpoint, the default 10.0 when there is none;
\* the price is positive and not NaN.
C15_PriceAlwaysReturned ==
    price_call # Nothing =>
        LET r == The(price_call)
            t == r.ticker
        IN  /\ ~r.raised
            /\ r.price = (IF valid(t.last) THEN t.last
                          ELSE IF valid(t.close) THEN t.close
                          ELSE IF valid(t.bid) /\ valid(t.ask) THEN (t.bid + t.ask) \div 2
                          ELSE DefaultPrice)
            /\ ~isnan(r.price)
            /\ r.price > 0

----------------------------------------------------------------------------
(* two calls in a row *)

\* C16: a second run of calculate_delta_targets and get_put_recommendations on
\* what the collaborators delivered to the first returns the same targets and
\* the same list.
C16_Idempotent ==
    (pc = "done" /\ first # Nothing) =>
        /\ The(first).targets = The(targets)
        /\ The(first).result = returned

----------------------------------------------------------------------------
(* the end of the scan *)

\* C17: a contract is looked up only while fewer than max_contracts candidates
\* are collected, and without configuration or chain the call returns the
\* empty list with no contract looked up.
C17_StopsAtCap ==
    /\ pc = "scanning" => Len(recommendations) < max_contracts
    /\ (pc = "done" /\ (config = Nothing \/ chains = Nothing)) =>
           (returned = <<>> /\ scanned = {})

\* C17 for max_contracts >= 1; with max_contracts = 0 the list returned is
\* empty, whatever was looked up.
C17_StopsAtCapWhenPositive ==
    /\ (pc = "scanning" /\ max_contracts >= 1) => Len(recommendations) < max_contracts
    /\ (pc = "done" /\ (config = Nothing \/ chains = Nothing)) =>
           (returned = <<>> /\ scanned = {})
    /\ (pc = "done" /\ result # Nothing /\ max_contracts = 0) => returned = <<>>

C17_Witness ==
    /\ pc = "sorting"
    /\ max_contracts >= 1
    /\ Len(recommendations) = max_contracts
    /\ idx <= Len(contracts)

====
